---- MODULE Spec2Model ----
(***************************************************************************)
(* SafetyCopilot: the deterministic tools (standard lookup, keyword risk   *)
(* estimator, checklist formatter), the Planner + Checker pipeline and the *)
(* batch evaluator.                                                        *)
(*                                                                         *)
(* A Python str is modelled as a sequence of one-character strings, so     *)
(* that lower(), strip(), replace() and the substring test `in` are        *)
(* computed character by character.                                        *)
(***************************************************************************)
EXTENDS Integers, Sequences, FiniteSets, TLC

\* ------------------------------------------------------------------------
\* str helpers
\* ------------------------------------------------------------------------
UpperAlpha == <<"A","B","C","D","E","F","G","H","I","J","K","L","M",
                "N","O","P","Q","R","S","T","U","V","W","X","Y","Z">>

LowerAlpha == <<"a","b","c","d","e","f","g","h","i","j","k","l","m",
                "n","o","p","q","r","s","t","u","v","w","x","y","z">>

\* str.lower() on one character
LowerChar(c) ==
    IF \E i \in 1..26 : UpperAlpha[i] = c
    THEN LowerAlpha[CHOOSE i \in 1..26 : UpperAlpha[i] = c]
    ELSE c

\* str.lower()
Lower(s) == [i \in 1..Len(s) |-> LowerChar(s[i])]

\* Python's `sub in text` on str: unanchored substring test
Contains(sub, text) ==
    \E i \in 0..(Len(text) - Len(sub)) :
        \A j \in 1..Len(sub) : text[i + j] = sub[j]

\* str.upper() on one character, and str.upper()
UpperChar(c) ==
    IF \E i \in 1..26 : LowerAlpha[i] = c
    THEN UpperAlpha[CHOOSE i \in 1..26 : LowerAlpha[i] = c]
    ELSE c

Upper(s) == [i \in 1..Len(s) |-> UpperChar(s[i])]

\* the elements of a list
Range(f) == { f[i] : i \in DOMAIN f }

\* concatenation of a sequence of strings
RECURSIVE Concat(_)
Concat(ss) == IF ss = <<>> THEN <<>> ELSE Head(ss) \o Concat(Tail(ss))

\* all sequences over S of length at most n
SeqsUpTo(S, n) == UNION { [1..k -> S] : k \in 0..n }

\* ------------------------------------------------------------------------
\* tools.py: risk_estimator_tool
\* ------------------------------------------------------------------------

high_risk_keywords ==
    << <<"b", "r", "a", "k", "e">>,   \* "brake"
       <<"b", "r", "a", "k", "i", "n", "g">>,   \* "braking"
       <<"s", "t", "e", "e", "r", "i", "n", "g">>,   \* "steering"
       <<"t", "r", "a", "i", "n">>,   \* "train"
       <<"r", "a", "i", "l", "w", "a", "y">>,   \* "railway"
       <<"h", "i", "g", "h", "-", "v", "o", "l", "t", "a", "g", "e">>,   \* "high-voltage"
       <<"h", "i", "g", "h", " ", "v", "o", "l", "t", "a", "g", "e">>,   \* "high voltage"
       <<"b", "a", "t", "t", "e", "r", "y">>,   \* "battery"
       <<"b", "m", "s">>,   \* "bms"
       <<"p", "o", "w", "e", "r", "t", "r", "a", "i", "n">>,   \* "powertrain"
       <<"a", "i", "r", "b", "a", "g">>,   \* "airbag"
       <<"c", "o", "l", "l", "i", "s", "i", "o", "n", " ", "a", "v", "o", "i", "d", "a", "n", "c", "e">> >>   \* "collision avoidance"

medium_risk_keywords ==
    << <<"m", "o", "n", "i", "t", "o", "r">>,   \* "monitor"
       <<"m", "o", "n", "i", "t", "o", "r", "i", "n", "g">>,   \* "monitoring"
       <<"d", "i", "a", "g", "n", "o", "s", "t", "i", "c">>,   \* "diagnostic"
       <<"d", "i", "a", "g", "n", "o", "s", "t", "i", "c", "s">>,   \* "diagnostics"
       <<"e", "m", "e", "r", "g", "e", "n", "c", "y">>,   \* "emergency"
       <<"f", "a", "i", "l", "-", "s", "a", "f", "e">>,   \* "fail-safe"
       <<"f", "a", "i", "l", "s", "a", "f", "e">>,   \* "failsafe"
       <<"s", "t", "a", "b", "i", "l", "i", "t", "y", " ", "c", "o", "n", "t", "r", "o", "l">>,   \* "stability control"
       <<"s", "a", "f", "e", "t", "y", " ", "m", "o", "n", "i", "t", "o", "r", "i", "n", "g">> >>   \* "safety monitoring"

\* the two `for kw in ...: if kw in text: score += w` loops
RECURSIVE ScoreLoop(_, _, _, _)
ScoreLoop(kws, text, weight, score) ==
    IF kws = <<>> THEN score
    ELSE ScoreLoop(Tail(kws), text, weight,
                   IF Contains(Head(kws), text) THEN score + weight ELSE score)

RiskScore(system_description) ==
    LET text == Lower(system_description)
        afterHigh == ScoreLoop(high_risk_keywords, text, 2, 0)
    IN  ScoreLoop(medium_risk_keywords, text, 1, afterHigh)

\* variant: the description is scanned without lower-casing it first
risk_estimator_tool_cased(system_description) ==
    LET afterHigh == ScoreLoop(high_risk_keywords, system_description, 2, 0)
        score == ScoreLoop(medium_risk_keywords, system_description, 1, afterHigh)
    IN  IF score >= 3 THEN "high"
        ELSE IF score >= 1 THEN "medium"
        ELSE "low"

risk_estimator_tool(system_description) ==
    LET score == RiskScore(system_description)
    IN  IF score >= 3 THEN "high"
        ELSE IF score >= 1 THEN "medium"
        ELSE "low"

\* inputs: descriptions are concatenations of at most MaxFrags fragments
MaxFrags == 2

DescFragments ==
    << <<"b", "r", "a", "k", "e">>,   \* "brake"
       <<"B", "R", "A", "K", "E">>,   \* "BRAKE"
       <<"h", "i", "g", "h", "-", "v", "o", "l", "t", "a", "g", "e">>,   \* "high-voltage"
       <<"m", "o", "n", "i", "t", "o", "r">>,   \* "monitor"
       <<"i", "n", "g">>,   \* "ing"
       <<"p", "o", "w", "e", "r">>,   \* "power"
       <<"t", "r", "a", "i", "n">>,   \* "train"
       <<" ">>,   \* " "
       <<"s", "t", "e", "p", " ", "a", "p", "p">>,   \* "step app"
       <<"E", "m", "e", "r", "g", "e", "n", "c", "y">> >>   \* "Emergency"


Descriptions == { Concat(fs) : fs \in SeqsUpTo({ DescFragments[i] : i \in DOMAIN DescFragments }, MaxFrags) }

\* ------------------------------------------------------------------------
\* mini_standard.py: the knowledge base
\* ------------------------------------------------------------------------
profile_iso26262 ==
    << [id |-> "iso26262-concept-hara", phase |-> "concept", topic |-> "HARA", priority |-> "high",
          summary |-> "Perform a hazard analysis and risk assessment for the system, identifying potential hazards and their risk levels."],
       [id |-> "iso26262-concept-safety-goals", phase |-> "concept", topic |-> "safety_goals", priority |-> "high",
          summary |-> "Define safety goals that mitigate the most critical hazards and document their rationale."],
       [id |-> "iso26262-design-reqs", phase |-> "design", topic |-> "safety_requirements", priority |-> "high",
          summary |-> "Derive and allocate safety requirements to system, hardware, and software elements."],
       [id |-> "iso26262-design-traceability", phase |-> "design", topic |-> "traceability", priority |-> "medium",
          summary |-> "Ensure traceability from safety goals to technical safety requirements and design elements."],
       [id |-> "iso26262-impl-sw-implementation", phase |-> "implementation", topic |-> "sw_implementation", priority |-> "medium",
          summary |-> "Implement software in accordance with coding guidelines, defensive programming, and safety mechanisms."],
       [id |-> "iso262262-verif-test-plan", phase |-> "verification", topic |-> "verification_plan", priority |-> "high",
          summary |-> "Plan verification and validation activities, including unit, integration, and system-level tests to show that safety requirements are met."],
       [id |-> "iso26262-verif-independent-review", phase |-> "verification", topic |-> "independent_review", priority |-> "medium",
          summary |-> "Schedule independent reviews or assessments for key safety work products."],
       [id |-> "iso26262-safety-case", phase |-> "safety_case", topic |-> "safety_case", priority |-> "high",
          summary |-> "Plan and maintain a safety case that collects evidence and arguments for releasing the system."],
       [id |-> "iso26262-safety-manual", phase |-> "safety_case", topic |-> "safety_manual", priority |-> "medium",
          summary |-> "Prepare safety manuals or usage guidelines for integrators and downstream users."] >>

profile_generic_safety ==
    << [id |-> "generic-risk-assessment", phase |-> "concept", topic |-> "risk_assessment", priority |-> "high",
          summary |-> "Identify hazards, estimate risks, and decide which risks require mitigation."],
       [id |-> "generic-controls", phase |-> "design", topic |-> "controls", priority |-> "medium",
          summary |-> "Design technical and organizational controls to reduce or monitor risks."],
       [id |-> "generic-test", phase |-> "verification", topic |-> "testing", priority |-> "medium",
          summary |-> "Plan and execute tests or other verification activities to check that controls work as intended."],
       [id |-> "generic-documentation", phase |-> "safety_case", topic |-> "documentation", priority |-> "medium",
          summary |-> "Document assumptions, limitations, and residual risks for stakeholders."] >>

MiniStandard == [iso26262 |-> profile_iso26262, generic_safety |-> profile_generic_safety]

\* ------------------------------------------------------------------------
\* tools.py: standard_lookup_tool
\* ------------------------------------------------------------------------
\* dict.get(key, default)
DictGet(d, key, default) == IF key \in DOMAIN d THEN d[key] ELSE default

\* [item for item in items if item["phase"] == phase]
RECURSIVE FilterPhase(_, _, _)
FilterPhase(items, phase, acc) ==
    IF items = <<>> THEN acc
    ELSE FilterPhase(Tail(items), phase,
                     IF Head(items).phase = phase THEN Append(acc, Head(items)) ELSE acc)

\* variant: the comprehension collects the matching entries newest first
standard_lookup_tool_reversed(kb, standard, phase) ==
    LET items == DictGet(kb, standard, <<>>)
        found == FilterPhase(items, phase, <<>>)
    IN  [i \in 1..Len(found) |-> found[Len(found) + 1 - i]]

standard_lookup_tool(kb, standard, phase) ==
    LET items == DictGet(kb, standard, <<>>)
    IN  FilterPhase(items, phase, <<>>)

\* inputs of the lookup
StandardNames == {"iso26262", "generic_safety", "iec61508", "ISO26262", "iso 26262", ""}
PhaseNames == {"concept", "design", "implementation", "verification", "safety_case",
               "Concept", "general", "validation", "concept ", ""}

\* ------------------------------------------------------------------------
\* tools.py: checklist_formatter_tool
\* ------------------------------------------------------------------------
\* A field of a task dict: a str, None, an int, a list, or no such key.
StrV(s) == [kind |-> "str", s |-> s]
NoneV == [kind |-> "none", s |-> <<>>]
IntV == [kind |-> "int", s |-> <<>>]
ListV == [kind |-> "list", s |-> <<>>]
AbsentV == [kind |-> "absent", s |-> <<>>]

\* characters removed by str.strip()
Whitespace == {" ", "\t", "\n", "\r", "\f"}

RECURSIVE LStrip(_)
LStrip(s) == IF s # <<>> /\ Head(s) \in Whitespace THEN LStrip(Tail(s)) ELSE s

RECURSIVE RStrip(_)
RStrip(s) ==
    IF s # <<>> /\ s[Len(s)] \in Whitespace THEN RStrip(SubSeq(s, 1, Len(s) - 1)) ELSE s

\* str.strip()
Strip(s) == RStrip(LStrip(s))

\* t.get(key, default)
TaskGet(field, default) == IF field.kind = "absent" THEN default ELSE field

s_general == <<"g", "e", "n", "e", "r", "a", "l">>
CheckboxPrefix == <<"-", " ", "[", " ", "]", " ">>

\* grouped.setdefault(phase, []).append(line) on an insertion-ordered dict,
\* kept as the list of its (key, value) items
SetDefaultAppend(grouped, phase, line) ==
    IF \E k \in DOMAIN grouped : grouped[k].key = phase
    THEN [k \in DOMAIN grouped |->
            IF grouped[k].key = phase
            THEN [grouped[k] EXCEPT !.lines = Append(@, line)]
            ELSE grouped[k]]
    ELSE Append(grouped, [key |-> phase, lines |-> <<line>>])

Returned(grouped) == [pc |-> "returned", grouped |-> grouped, error |-> "none"]
Raised(e) == [pc |-> "raised", grouped |-> <<>>, error |-> e]

\* the body of `for t in tasks:`; a non-str description has no strip(),
\* an unhashable phase cannot be a dict key
RECURSIVE FormatLoop(_, _)
FormatLoop(ts, grouped) ==
    IF ts = <<>> THEN Returned(grouped)
    ELSE LET t == Head(ts)
             phase == TaskGet(t.phase, StrV(s_general))
             raw == TaskGet(t.description, StrV(<<>>))
         IN  IF raw.kind # "str" THEN Raised("AttributeError")
             ELSE LET desc == Strip(raw.s)
                  IN  IF desc = <<>> THEN FormatLoop(Tail(ts), grouped)
                      ELSE IF phase.kind = "list" THEN Raised("TypeError")
                      ELSE FormatLoop(Tail(ts),
                                      SetDefaultAppend(grouped, phase, CheckboxPrefix \o desc))

\* variant: the line is built from the description as given, not trimmed
RECURSIVE FormatLoopUntrimmed(_, _)
FormatLoopUntrimmed(ts, grouped) ==
    IF ts = <<>> THEN Returned(grouped)
    ELSE LET t == Head(ts)
             phase == TaskGet(t.phase, StrV(s_general))
             raw == TaskGet(t.description, StrV(<<>>))
         IN  IF raw.kind # "str" THEN Raised("AttributeError")
             ELSE IF Strip(raw.s) = <<>> THEN FormatLoopUntrimmed(Tail(ts), grouped)
             ELSE IF phase.kind = "list" THEN Raised("TypeError")
             ELSE FormatLoopUntrimmed(Tail(ts),
                                      SetDefaultAppend(grouped, phase, CheckboxPrefix \o raw.s))

checklist_formatter_tool_untrimmed(ts) == FormatLoopUntrimmed(ts, <<>>)

\* variant: the phase's list is created before the empty description is skipped
RECURSIVE FormatLoopEagerKey(_, _)
FormatLoopEagerKey(ts, grouped) ==
    IF ts = <<>> THEN Returned(grouped)
    ELSE LET t == Head(ts)
             phase == TaskGet(t.phase, StrV(s_general))
             raw == TaskGet(t.description, StrV(<<>>))
             withKey == IF \E k \in DOMAIN grouped : grouped[k].key = phase
                        THEN grouped
                        ELSE Append(grouped, [key |-> phase, lines |-> <<>>])
         IN  IF raw.kind # "str" THEN Raised("AttributeError")
             ELSE IF phase.kind = "list" THEN Raised("TypeError")
             ELSE LET desc == Strip(raw.s)
                  IN  IF desc = <<>> THEN FormatLoopEagerKey(Tail(ts), withKey)
                      ELSE FormatLoopEagerKey(Tail(ts),
                               SetDefaultAppend(grouped, phase, CheckboxPrefix \o desc))

checklist_formatter_tool_eager_key(ts) == FormatLoopEagerKey(ts, <<>>)

checklist_formatter_tool(ts) == FormatLoop(ts, <<>>)

\* inputs of the formatter
MaxTasks == 3

s_concept == <<"c", "o", "n", "c", "e", "p", "t">>
s_verification == <<"v", "e", "r", "i", "f", "i", "c", "a", "t", "i", "o", "n">>

\* tasks as the data model has them: each field a str or missing
TypedTasks ==
    [phase : {AbsentV, StrV(s_concept), StrV(s_verification), StrV(s_general)},
     description : {AbsentV, StrV(<<"A">>), StrV(<<" ", "B", " ", "b", "\n">>),
                    StrV(<<" ", "\t">>), StrV(<<>>)}]

\* tasks with any field values
AnyTasks ==
    [phase : {AbsentV, StrV(s_concept), NoneV, ListV},
     description : {AbsentV, StrV(<<"A">>), StrV(<<" ">>), NoneV, IntV}]

\* ------------------------------------------------------------------------
\* eval.py: keyword coverage matching in evaluate_systems
\* ------------------------------------------------------------------------
s_hara == <<"h", "a", "r", "a">>
s_hazard_analysis == <<"h", "a", "z", "a", "r", "d", " ", "a", "n", "a", "l", "y", "s", "i", "s">>
s_verification_plan == <<"v", "e", "r", "i", "f", "i", "c", "a", "t", "i", "o", "n", "_", "p", "l", "a", "n">>
s_plan == <<"p", "l", "a", "n">>
s_test_plan == <<"t", "e", "s", "t", " ", "p", "l", "a", "n">>

\* key.replace("_", " ")
ReplaceUnderscores(s) == [i \in 1..Len(s) |-> IF s[i] = "_" THEN " " ELSE s[i]]

\* variant: every keyword is matched by the generic rule
KeywordMatchGeneric(kw, text_lower) ==
    Contains(ReplaceUnderscores(Lower(kw)), text_lower)

\* the body of `for kw in expected:` up to `match`
KeywordMatch(kw, text_lower) ==
    LET key == Lower(kw)
    IN  IF key = s_hara
        THEN Contains(s_hara, text_lower) \/ Contains(s_hazard_analysis, text_lower)
        ELSE IF key = s_verification_plan
        THEN \/ (Contains(s_verification, text_lower) /\ Contains(s_plan, text_lower))
             \/ Contains(s_test_plan, text_lower)
        ELSE Contains(ReplaceUnderscores(key), text_lower)

\* inputs: final texts are concatenations of at most MaxTextFrags fragments
MaxTextFrags == 2

ExpectedKeywords ==
    { <<"h", "a", "r", "a">>,   \* "hara"
      <<"H", "A", "R", "A">>,   \* "HARA"
      <<"v", "e", "r", "i", "f", "i", "c", "a", "t", "i", "o", "n", "_", "p", "l", "a", "n">>,   \* "verification_plan"
      <<"V", "e", "r", "i", "f", "i", "c", "a", "t", "i", "o", "n", "_", "P", "l", "a", "n">>,   \* "Verification_Plan"
      <<"s", "a", "f", "e", "t", "y", "_", "g", "o", "a", "l", "s">>,   \* "safety_goals"
      <<"S", "a", "f", "e", "t", "y", "_", "C", "a", "s", "e">>,   \* "Safety_Case"
      <<"p", "l", "a", "n">>,   \* "plan"
      <<>> }   \* ""

TextFragments ==
    { <<"h", "a", "r", "a">>,   \* "hara"
      <<"H", "a", "z", "a", "r", "d", " ", "A", "n", "a", "l", "y", "s", "i", "s">>,   \* "Hazard Analysis"
      <<"v", "e", "r", "i", "f", "i", "c", "a", "t", "i", "o", "n">>,   \* "verification"
      <<"p", "l", "a", "n">>,   \* "plan"
      <<"T", "e", "s", "t", " ", "P", "l", "a", "n">>,   \* "Test Plan"
      <<"s", "a", "f", "e", "t", "y", " ", "g", "o", "a", "l", "s">>,   \* "safety goals"
      <<"s", "a", "f", "e", "t", "y", "_", "g", "o", "a", "l", "s">>,   \* "safety_goals"
      <<" ">>,   \* " "
      <<"S", "A", "F", "E", "T", "Y", " ", "C", "A", "S", "E">>,   \* "SAFETY CASE"
      <<"c", "h", "a", "r", "a", "c", "t", "e", "r">> }   \* "character"

FinalTexts == { Concat(fs) : fs \in SeqsUpTo(TextFragments, MaxTextFrags) }

\* ------------------------------------------------------------------------
\* eval.py: run_pipeline_get_text and evaluate_systems
\* ------------------------------------------------------------------------
s_safety_goals == <<"s", "a", "f", "e", "t", "y", "_", "g", "o", "a", "l", "s">>
s_HARA == <<"H", "A", "R", "A">>

\* the value None of an Optional[Runner] / Optional[LlmAgent]
None == "None"

\* agents.py: session ids
SESSION_ID_PLANNER == "planner_session"
SESSION_ID_CHECKER == "checker_session"

\* planner_input: the fields the f-string embeds (the fixed task text is
\* the same in every message)
PlannerInput(description, domain, standard, risk) ==
    [kind |-> "planner_input", description |-> description, domain |-> domain,
     standard |-> standard, risk_level |-> risk, plan |-> <<>>]

\* variant: the checker prompt is assembled without the planner's text
CheckerInputNoPlan(description, domain, standard, risk, planner_txt) ==
    [kind |-> "checker_input", description |-> description, domain |-> domain,
     standard |-> standard, risk_level |-> risk, plan |-> <<>>]

\* checker_input: the same fields plus the planner's text between the
\* triple quotes
CheckerInput(description, domain, standard, risk, planner_txt) ==
    [kind |-> "checker_input", description |-> description, domain |-> domain,
     standard |-> standard, risk_level |-> risk, plan |-> planner_txt]

\* variant: once a text has been captured, later events do not replace it
CaptureTextFirst(event, captured) ==
    IF event.final /\ event.content /\ captured = <<>> THEN event.text ELSE captured

\* the body of `async for event in ...`: the text kept after one event
CaptureText(event, captured) ==
    IF event.final /\ event.content THEN event.text ELSE captured

\* `for kw in expected: ... if match: covered += 1`
RECURSIVE CoveredLoop(_, _, _)
CoveredLoop(expected, text_lower, covered) ==
    IF expected = <<>> THEN covered
    ELSE CoveredLoop(Tail(expected), text_lower,
                     IF KeywordMatch(Head(expected), text_lower) THEN covered + 1 ELSE covered)

\* max(1, len(expected))
Max(a, b) == IF a >= b THEN a ELSE b

\* round(num / den) to the nearest integer, ties to even
RoundHalfEven(num, den) ==
    LET q == num \div den
        r == num % den
    IN  IF 2 * r < den THEN q
        ELSE IF 2 * r > den THEN q + 1
        ELSE IF q % 2 = 0 THEN q ELSE q + 1

\* (coverage_ratio * 100).round(1), in tenths of a percent
CoveragePct(ratio) == RoundHalfEven(ratio.num * 1000, ratio.den)

\* variant: the denominator is len(expected), unguarded
CoverageRatioUnguarded(covered, expected) ==
    [num |-> covered, den |-> Len(expected)]

\* coverage_ratio = covered / max(1, len(expected)), kept as a fraction
CoverageRatio(covered, expected) ==
    [num |-> covered, den |-> Max(1, Len(expected))]

\* the dict appended to rows for system s and the pipeline's final text
EvalRow(s, final_text) ==
    LET text_lower == Lower(final_text)
        expected == s.expected_must_have
        covered == CoveredLoop(expected, text_lower, 0)
    IN  [id |-> s.id, name |-> s.name, domain |-> s.domain,
         risk |-> risk_estimator_tool(s.description),
         expected_topics |-> Len(expected),
         covered_topics |-> covered,
         coverage_ratio |-> CoverageRatio(covered, expected)]

\* a row of the returned DataFrame: the selected columns
ReportRow(row) ==
    [id |-> row.id, name |-> row.name, domain |-> row.domain, risk |-> row.risk,
     expected_topics |-> row.expected_topics, covered_topics |-> row.covered_topics,
     coverage_pct |-> CoveragePct(row.coverage_ratio)]

\* inputs of the pipeline and of the evaluator
MaxRuns == 2
MaxSystems == 2
MaxEvents == 2

Standards == {"iso26262", "generic_safety"}

Systems ==
    { [id |-> "sys1", name |-> "Brake ECU", domain |-> "automotive",
       description |-> <<"H", "V", " ", "B", "r", "a", "k", "e", " ", "E", "C", "U">>,
       expected_must_have |-> <<s_HARA, s_safety_goals, s_verification_plan>>],
      [id |-> "sys2", name |-> "Step counter", domain |-> "consumer",
       description |-> <<"S", "t", "e", "p", " ", "a", "p", "p">>,
       expected_must_have |-> <<>>] }

\* texts the generation service answers with
text_full == <<"H", "A", "R", "A", ",", " ", "S", "a", "f", "e", "t", "y", " ", "G", "o", "a", "l", "s", ",", " ", "t", "e", "s", "t", " ", "p", "l", "a", "n">>
text_hazard == <<"H", "a", "z", "a", "r", "d", " ", "a", "n", "a", "l", "y", "s", "i", "s">>
text_draft == <<".", ".", ".">>

\* events of a run_async stream: is_final_response(), whether content and
\* content.parts are non-empty, and parts[0].text
Events ==
    { [final |-> FALSE, content |-> TRUE, text |-> text_draft],
      [final |-> TRUE, content |-> TRUE, text |-> text_full],
      [final |-> TRUE, content |-> TRUE, text |-> text_hazard],
      [final |-> TRUE, content |-> FALSE, text |-> <<>>] }

NoSystem ==
    [id |-> "", name |-> "", domain |-> "", description |-> <<>>, expected_must_have |-> <<>>]


\* ------------------------------------------------------------------------
\* State
\* ------------------------------------------------------------------------
VARIABLES
    system_description,   \* risk_estimator_tool: the argument
    risk_level,           \* risk_estimator_tool: the returned level, "none" before the call
    mini_standard,        \* mini_standard.py: the module-level knowledge base
    lk_standard,          \* standard_lookup_tool: argument standard
    lk_phase,             \* standard_lookup_tool: argument phase
    lk_result,            \* standard_lookup_tool: the returned list
    lk_pc,                \* standard_lookup_tool: "call" before, "returned" after the call
    tasks,                \* checklist_formatter_tool: the argument
    fmt,                  \* checklist_formatter_tool: pc "call", then the returned dict or the raised error
    cv_kw,                \* coverage matching: the expected keyword kw
    cv_text,              \* coverage matching: final_text
    cv_match,             \* coverage matching: the value of match
    cv_pc,                \* coverage matching: "call" before, "done" after
    planner_agent,        \* agents.py: planner_agent, None or "planner_agent"
    checker_agent,        \* agents.py: checker_agent, None or "checker_agent"
    agents_planner_runner, \* agents.py: the module global planner_runner
    agents_checker_runner, \* agents.py: the module global checker_runner
    sessions,             \* session_service: session id -> messages received, for the created sessions
    eval_imported,        \* whether eval.py has been imported
    planner_runner,       \* eval.py: the name planner_runner bound by `from agents import`
    checker_runner,       \* eval.py: the name checker_runner bound by `from agents import`
    pl_pc,                \* run_pipeline_get_text: "idle", "planner", "checker", "returned", "raised"
    pl_caller,            \* run_pipeline_get_text: "direct" or "evaluate"
    pl_system,            \* run_pipeline_get_text: argument system
    pl_standard,          \* run_pipeline_get_text: argument standard
    pl_risk_level,        \* run_pipeline_get_text: local risk_level
    planner_text,         \* run_pipeline_get_text: local planner_text
    checker_text,         \* run_pipeline_get_text: local checker_text
    pl_events,            \* events consumed so far from the open run_async stream
    pl_calls,             \* run_async calls made by the current run, in order
    active,               \* the runners whose event stream is open
    pl_result,            \* run_pipeline_get_text: returned text or raised error
    systems,              \* evaluate_systems: argument systems
    ev_standard,          \* evaluate_systems: argument standard
    ev_i,                 \* evaluate_systems: position of `for s in systems`
    rows,                 \* evaluate_systems: local rows
    ev_pc,                \* evaluate_systems: "idle", "loop", "await", "returned", "raised"
    ev_result             \* evaluate_systems: returned DataFrame rows or raised error

riskVars == <<system_description, risk_level>>
lookupVars == <<mini_standard, lk_standard, lk_phase, lk_result, lk_pc>>
fmtVars == <<tasks, fmt>>
coverVars == <<cv_kw, cv_text, cv_match, cv_pc>>
agentsVars == <<planner_agent, checker_agent, agents_planner_runner, agents_checker_runner>>
evalModVars == <<eval_imported, planner_runner, checker_runner>>
plVars == <<pl_pc, pl_caller, pl_system, pl_standard, pl_risk_level, planner_text,
            checker_text, pl_events, pl_calls, active, pl_result>>
evVars == <<systems, ev_standard, ev_i, rows, ev_pc, ev_result>>
toolVars == <<riskVars, lookupVars, fmtVars, coverVars>>
mainVars == <<agentsVars, sessions, evalModVars, plVars, evVars>>

vars == <<toolVars, mainVars>>

\* ------------------------------------------------------------------------
\* States in which an operation has not been called
\* ------------------------------------------------------------------------
RiskIdle ==
    /\ system_description = <<>>
    /\ risk_level = "none"

LookupIdle ==
    /\ mini_standard = MiniStandard
    /\ lk_standard = ""
    /\ lk_phase = ""
    /\ lk_result = <<>>
    /\ lk_pc = "idle"

FormatIdle ==
    /\ tasks = <<>>
    /\ fmt = [pc |-> "idle", grouped |-> <<>>, error |-> "none"]

CoverIdle ==
    /\ cv_kw = <<>>
    /\ cv_text = <<>>
    /\ cv_match = FALSE
    /\ cv_pc = "idle"

NoResult == [kind |-> "none", text |-> <<>>, error |-> "none"]
NoReport == [kind |-> "none", rows |-> <<>>, error |-> "none"]

PipelineIdle ==
    /\ pl_pc = "idle"
    /\ pl_caller = "none"
    /\ pl_system = NoSystem
    /\ pl_standard = ""
    /\ pl_risk_level = "none"
    /\ planner_text = <<>>
    /\ checker_text = <<>>
    /\ pl_events = <<>>
    /\ pl_calls = <<>>
    /\ active = {}
    /\ pl_result = NoResult

EvaluateIdle ==
    /\ systems = <<>>
    /\ ev_standard = ""
    /\ ev_i = 0
    /\ rows = <<>>
    /\ ev_pc = "idle"
    /\ ev_result = NoReport

\* the modules before anything is imported or set up, with agents that
\* were all created
MainIdle ==
    /\ planner_agent = "planner_agent"
    /\ checker_agent = "checker_agent"
    /\ agents_planner_runner = None
    /\ agents_checker_runner = None
    /\ sessions = [s \in {} |-> <<>>]
    /\ eval_imported = FALSE
    /\ planner_runner = None
    /\ checker_runner = None
    /\ PipelineIdle
    /\ EvaluateIdle

\* ------------------------------------------------------------------------
\* Specification of risk_estimator_tool applied to any description
\* ------------------------------------------------------------------------
RiskInit ==
    /\ system_description \in Descriptions
    /\ risk_level = "none"
    /\ LookupIdle /\ FormatIdle /\ CoverIdle /\ MainIdle

RiskCall ==
    /\ risk_level = "none"
    /\ risk_level' = risk_estimator_tool(system_description)
    /\ UNCHANGED <<system_description, lookupVars, fmtVars, coverVars, mainVars>>

RiskNext == RiskCall

SpecRisk == RiskInit /\ [][RiskNext]_vars

\* ------------------------------------------------------------------------
\* Specification of standard_lookup_tool applied to any (standard, phase)
\* ------------------------------------------------------------------------
LookupInit ==
    /\ mini_standard = MiniStandard
    /\ lk_standard \in StandardNames
    /\ lk_phase \in PhaseNames
    /\ lk_result = <<>>
    /\ lk_pc = "call"
    /\ RiskIdle /\ FormatIdle /\ CoverIdle /\ MainIdle

LookupCall ==
    /\ lk_pc = "call"
    /\ lk_result' = standard_lookup_tool(mini_standard, lk_standard, lk_phase)
    /\ lk_pc' = "returned"
    /\ UNCHANGED <<mini_standard, lk_standard, lk_phase, riskVars, fmtVars, coverVars, mainVars>>

LookupNext == LookupCall

SpecLookup == LookupInit /\ [][LookupNext]_vars

\* ------------------------------------------------------------------------
\* Specifications of checklist_formatter_tool: applied to tasks whose fields
\* are strings or missing (SpecFormat), and to tasks with any field values
\* (SpecFormatAny)
\* ------------------------------------------------------------------------
FormatInit ==
    /\ tasks \in SeqsUpTo(TypedTasks, MaxTasks)
    /\ fmt = [pc |-> "call", grouped |-> <<>>, error |-> "none"]
    /\ RiskIdle /\ LookupIdle /\ CoverIdle /\ MainIdle

FormatAnyInit ==
    /\ tasks \in SeqsUpTo(AnyTasks, MaxTasks)
    /\ fmt = [pc |-> "call", grouped |-> <<>>, error |-> "none"]
    /\ RiskIdle /\ LookupIdle /\ CoverIdle /\ MainIdle

FormatCall ==
    /\ fmt.pc = "call"
    /\ fmt' = checklist_formatter_tool(tasks)
    /\ UNCHANGED <<tasks, riskVars, lookupVars, coverVars, mainVars>>

FormatNext == FormatCall

SpecFormat == FormatInit /\ [][FormatNext]_vars

SpecFormatAny == FormatAnyInit /\ [][FormatNext]_vars

\* ------------------------------------------------------------------------
\* Specification of the coverage test of one expected keyword against one
\* final text
\* ------------------------------------------------------------------------
CoverInit ==
    /\ cv_kw \in ExpectedKeywords
    /\ cv_text \in FinalTexts
    /\ cv_match = FALSE
    /\ cv_pc = "call"
    /\ RiskIdle /\ LookupIdle /\ FormatIdle /\ MainIdle

CoverCall ==
    /\ cv_pc = "call"
    /\ cv_match' = KeywordMatch(cv_kw, Lower(cv_text))
    /\ cv_pc' = "done"
    /\ UNCHANGED <<cv_kw, cv_text, riskVars, lookupVars, fmtVars, mainVars>>

CoverNext == CoverCall

SpecCover == CoverInit /\ [][CoverNext]_vars


\* ------------------------------------------------------------------------
\* Specification of the modules agents.py and eval.py: setup, import,
\* run_pipeline_get_text and evaluate_systems
\* ------------------------------------------------------------------------
\* agents.py, import time: the agents are created inside one try block, so
\* a failure leaves the agents from the failing constructor on as None
Init ==
    /\ RiskIdle /\ LookupIdle /\ FormatIdle /\ CoverIdle
    /\ \E created \in { <<"planner_agent", "checker_agent">>, <<"planner_agent", None>>,
                         <<None, None>> } :
          /\ planner_agent = created[1]
          /\ checker_agent = created[2]
    /\ agents_planner_runner = None
    /\ agents_checker_runner = None
    /\ sessions = [s \in {} |-> <<>>]
    /\ eval_imported = FALSE
    /\ planner_runner = None
    /\ checker_runner = None
    /\ PipelineIdle
    /\ EvaluateIdle

\* no call of the pipeline or of the evaluator is in progress
Quiescent ==
    /\ pl_pc \in {"idle", "returned", "raised"}
    /\ ev_pc \in {"idle", "returned", "raised"}

\* agents.py: setup_sessions_and_runners, awaited once
setup_sessions_and_runners ==
    /\ Quiescent
    /\ DOMAIN sessions = {}
    /\ sessions' = [s \in {SESSION_ID_PLANNER, SESSION_ID_CHECKER} |-> <<>>]
    /\ agents_planner_runner' =
          IF planner_agent # None THEN "planner_runner" ELSE agents_planner_runner
    /\ agents_checker_runner' =
          IF checker_agent # None THEN "checker_runner" ELSE agents_checker_runner
    /\ UNCHANGED <<planner_agent, checker_agent, evalModVars, plVars, evVars, toolVars>>

\* eval.py: `from agents import planner_runner, checker_runner, ...` binds
\* eval's own names to the values the agents module holds at that moment
ImportEval ==
    /\ ~eval_imported
    /\ eval_imported' = TRUE
    /\ planner_runner' = agents_planner_runner
    /\ checker_runner' = agents_checker_runner
    /\ UNCHANGED <<agentsVars, sessions, plVars, evVars, toolVars>>

NotInitialized == "RuntimeError: Agents (Planner/Checker) are not initialized."

\* variant: the guard fires only when both runners are None
RunnersMissingBoth == planner_runner = None /\ checker_runner = None

\* `planner_runner is None or checker_runner is None`
RunnersMissing == planner_runner = None \/ checker_runner = None

\* the number of pipeline runs that have sent their planner message
RunsSoFar ==
    IF SESSION_ID_PLANNER \in DOMAIN sessions THEN Len(sessions[SESSION_ID_PLANNER]) ELSE 0

\* variant: the session is started afresh by every message
SendFresh(session_id, new_message) ==
    [sessions EXCEPT ![session_id] = <<new_message>>]

\* runner.run_async(session_id, new_message): the message enters the session
Send(session_id, new_message) ==
    [sessions EXCEPT ![session_id] = Append(@, new_message)]

RunAsyncCall(runner, session_id, new_message) ==
    [runner |-> runner, session_id |-> session_id, new_message |-> new_message]

\* run_pipeline_get_text up to the first event of the planner's stream
PipelineBegin(caller, system, standard) ==
    /\ pl_caller' = caller
    /\ pl_system' = system
    /\ pl_standard' = standard
    /\ planner_text' = <<>>
    /\ checker_text' = <<>>
    /\ pl_events' = <<>>
    /\ IF RunnersMissing
       THEN /\ pl_pc' = "raised"
            /\ pl_result' = [kind |-> "raised", text |-> <<>>, error |-> NotInitialized]
            /\ pl_risk_level' = "none"
            /\ pl_calls' = <<>>
            /\ active' = {}
            /\ UNCHANGED sessions
       ELSE LET risk == risk_estimator_tool(system.description)
                planner_input == PlannerInput(system.description, system.domain, standard, risk)
            IN  /\ pl_pc' = "planner"
                /\ pl_result' = NoResult
                /\ pl_risk_level' = risk
                /\ pl_calls' = <<RunAsyncCall(planner_runner, SESSION_ID_PLANNER, planner_input)>>
                /\ active' = {planner_runner}
                /\ sessions' = Send(SESSION_ID_PLANNER, planner_input)

\* the frame and the result of a finished evaluate_systems are gone
EvaluateReset ==
    /\ systems' = <<>>
    /\ ev_standard' = ""
    /\ ev_i' = 0
    /\ rows' = <<>>
    /\ ev_pc' = "idle"
    /\ ev_result' = NoReport

\* a caller awaits run_pipeline_get_text(system, standard) directly
DirectCall ==
    /\ eval_imported
    /\ Quiescent
    /\ \E system \in Systems, standard \in Standards :
          /\ RunnersMissing \/ RunsSoFar < MaxRuns
          /\ PipelineBegin("direct", system, standard)
    /\ EvaluateReset
    /\ UNCHANGED <<agentsVars, evalModVars, toolVars>>

\* one event of the planner's stream
PlannerEvent ==
    /\ pl_pc = "planner"
    /\ Len(pl_events) < MaxEvents
    /\ \E event \in Events :
          /\ pl_events' = Append(pl_events, event)
          /\ planner_text' = CaptureText(event, planner_text)
    /\ UNCHANGED <<pl_pc, pl_caller, pl_system, pl_standard, pl_risk_level, checker_text,
                   pl_calls, active, pl_result>>
    /\ UNCHANGED <<agentsVars, sessions, evalModVars, evVars, toolVars>>

\* the planner's stream is exhausted: the checker prompt is assembled and
\* sent (calling run_async on a runner that is None is an AttributeError)
CheckerCall ==
    /\ pl_pc = "planner"
    /\ pl_events' = <<>>
    /\ IF checker_runner = None
       THEN /\ pl_pc' = "raised"
            /\ pl_result' = [kind |-> "raised", text |-> <<>>, error |-> "AttributeError"]
            /\ active' = {}
            /\ UNCHANGED <<pl_calls, sessions>>
       ELSE LET checker_input == CheckerInput(pl_system.description, pl_system.domain,
                                              pl_standard, pl_risk_level, planner_text)
            IN  /\ pl_pc' = "checker"
                /\ pl_calls' = Append(pl_calls,
                                      RunAsyncCall(checker_runner, SESSION_ID_CHECKER, checker_input))
                /\ active' = {checker_runner}
                /\ sessions' = Send(SESSION_ID_CHECKER, checker_input)
                /\ UNCHANGED pl_result
    /\ UNCHANGED <<pl_caller, pl_system, pl_standard, pl_risk_level, planner_text, checker_text>>
    /\ UNCHANGED <<agentsVars, evalModVars, evVars, toolVars>>

\* one event of the checker's stream
CheckerEvent ==
    /\ pl_pc = "checker"
    /\ Len(pl_events) < MaxEvents
    /\ \E event \in Events :
          /\ pl_events' = Append(pl_events, event)
          /\ checker_text' = CaptureText(event, checker_text)
    /\ UNCHANGED <<pl_pc, pl_caller, pl_system, pl_standard, pl_risk_level, planner_text,
                   pl_calls, active, pl_result>>
    /\ UNCHANGED <<agentsVars, sessions, evalModVars, evVars, toolVars>>

\* the checker's stream is exhausted: return checker_text
PipelineReturn ==
    /\ pl_pc = "checker"
    /\ pl_pc' = "returned"
    /\ active' = {}
    /\ pl_events' = <<>>
    /\ pl_result' = [kind |-> "returned", text |-> checker_text, error |-> "none"]
    /\ UNCHANGED <<pl_caller, pl_system, pl_standard, pl_risk_level, planner_text,
                   checker_text, pl_calls>>
    /\ UNCHANGED <<agentsVars, sessions, evalModVars, evVars, toolVars>>

\* the frame of a finished run_pipeline_get_text is gone
PipelineReset ==
    /\ pl_pc' = "idle"
    /\ pl_caller' = "none"
    /\ pl_system' = NoSystem
    /\ pl_standard' = ""
    /\ pl_risk_level' = "none"
    /\ planner_text' = <<>>
    /\ checker_text' = <<>>
    /\ pl_events' = <<>>
    /\ pl_calls' = <<>>
    /\ active' = {}
    /\ pl_result' = NoResult

\* a caller awaits evaluate_systems(systems, standard): rows = []
EvaluateCall ==
    /\ eval_imported
    /\ Quiescent
    /\ \E ss \in SeqsUpTo(Systems, MaxSystems), standard \in Standards :
          /\ RunnersMissing \/ RunsSoFar + Len(ss) <= MaxRuns
          /\ systems' = ss
          /\ ev_standard' = standard
    /\ ev_i' = 1
    /\ rows' = <<>>
    /\ ev_pc' = "loop"
    /\ ev_result' = NoReport
    /\ PipelineReset
    /\ UNCHANGED <<agentsVars, sessions, evalModVars, toolVars>>

\* `for s in systems: final_text = await run_pipeline_get_text(s, standard)`
EvaluatePipelineCall ==
    /\ ev_pc = "loop"
    /\ ev_i <= Len(systems)
    /\ PipelineBegin("evaluate", systems[ev_i], ev_standard)
    /\ ev_pc' = "await"
    /\ UNCHANGED <<systems, ev_standard, ev_i, rows, ev_result>>
    /\ UNCHANGED <<agentsVars, evalModVars, toolVars>>

\* the pipeline returned: the rest of the loop body, rows.append(...)
EvaluateAppendRow ==
    /\ ev_pc = "await"
    /\ pl_pc = "returned"
    /\ rows' = Append(rows, EvalRow(systems[ev_i], pl_result.text))
    /\ ev_i' = ev_i + 1
    /\ ev_pc' = "loop"
    /\ PipelineReset
    /\ UNCHANGED <<systems, ev_standard, ev_result>>
    /\ UNCHANGED <<agentsVars, sessions, evalModVars, toolVars>>

\* the pipeline raised: the error propagates out of evaluate_systems
EvaluatePropagate ==
    /\ ev_pc = "await"
    /\ pl_pc = "raised"
    /\ ev_pc' = "raised"
    /\ ev_result' = [kind |-> "raised", rows |-> <<>>, error |-> pl_result.error]
    /\ PipelineReset
    /\ UNCHANGED <<systems, ev_standard, ev_i, rows>>
    /\ UNCHANGED <<agentsVars, sessions, evalModVars, toolVars>>

\* after the loop: df = pd.DataFrame(rows); df["coverage_%"] = ...; column
\* selection.  A DataFrame built from an empty list has no columns, so
\* df["coverage_ratio"] is a KeyError.
EvaluateBuildFrame ==
    /\ ev_pc = "loop"
    /\ ev_i > Len(systems)
    /\ IF rows = <<>>
       THEN /\ ev_pc' = "raised"
            /\ ev_result' = [kind |-> "raised", rows |-> <<>>, error |-> "KeyError: 'coverage_ratio'"]
       ELSE /\ ev_pc' = "returned"
            /\ ev_result' = [kind |-> "returned",
                             rows |-> [i \in DOMAIN rows |-> ReportRow(rows[i])],
                             error |-> "none"]
    /\ UNCHANGED <<systems, ev_standard, ev_i, rows>>
    /\ UNCHANGED <<agentsVars, sessions, evalModVars, plVars, toolVars>>

Next ==
    \/ setup_sessions_and_runners
    \/ ImportEval
    \/ DirectCall
    \/ PlannerEvent
    \/ CheckerCall
    \/ CheckerEvent
    \/ PipelineReturn
    \/ EvaluateCall
    \/ EvaluatePipelineCall
    \/ EvaluateAppendRow
    \/ EvaluatePropagate
    \/ EvaluateBuildFrame

Spec == Init /\ [][Next]_vars


\* ---- C3 ----
s_brake == <<"b", "r", "a", "k", "e">>
s_high_voltage == <<"h", "i", "g", "h", "-", "v", "o", "l", "t", "a", "g", "e">>

HighHits(d) ==
    LET text == Lower(d) IN { kw \in Range(high_risk_keywords) : Contains(kw, text) }
MediumHits(d) ==
    LET text == Lower(d) IN { kw \in Range(medium_risk_keywords) : Contains(kw, text) }
StatedScore(d) == 2 * Cardinality(HighHits(d)) + Cardinality(MediumHits(d))
StatedLevel(d) ==
    IF StatedScore(d) >= 3 THEN "high"
    ELSE IF StatedScore(d) >= 1 THEN "medium"
    ELSE "low"

\* C3: the level returned by risk_estimator_tool is the one given by
\* score = 2 * (number of high-risk keywords occurring in the lower-cased
\* description) + (number of medium-risk keywords occurring), each keyword
\* counted once: high when score >= 3, medium when 1 <= score < 3, low when
\* score = 0.  The level is the same for the upper-cased and the lower-cased
\* description, a description with both "brake" and "high-voltage" is high,
\* and a description with no keyword is low.
C3_RiskLevelByScore ==
    risk_level # "none" =>
        /\ risk_level = StatedLevel(system_description)
        /\ risk_level = risk_estimator_tool(Upper(system_description))
        /\ risk_level = risk_estimator_tool(Lower(system_description))
        /\ (Contains(s_brake, system_description)
              /\ Contains(s_high_voltage, system_description)) => risk_level = "high"
        /\ (HighHits(system_description) = {} /\ MediumHits(system_description) = {})
              => risk_level = "low"

\* a description written in upper case that mentions brake and high-voltage
\* has been classified
C3_Witness ==
    /\ risk_level = "high"
    /\ system_description # Lower(system_description)
    /\ Contains(s_brake, Lower(system_description))
    /\ ~Contains(s_brake, system_description)
    /\ Contains(s_high_voltage, system_description)

\* ---- C4 ----
StatedProfile(standard) ==
    IF standard \in DOMAIN MiniStandard THEN MiniStandard[standard] ELSE <<>>

\* positions of the profile's entries whose phase equals the requested one
PhasePositions(profile, phase) == { i \in DOMAIN profile : profile[i].phase = phase }

\* C4: the lookup returns exactly the entries of the named profile whose
\* phase equals the requested phase, in the profile's order; an unknown
\* standard is an empty profile, so a pair absent from the knowledge base
\* gives the empty sequence; lookup(iso26262, concept) contains the topics
\* HARA and safety_goals; the knowledge base is left unchanged.
C4_LookupFilter ==
    /\ mini_standard = MiniStandard
    /\ lk_pc = "returned" =>
        LET profile == StatedProfile(lk_standard)
            pos == PhasePositions(profile, lk_phase)
        IN  /\ Len(lk_result) = Cardinality(pos)
            /\ \E f \in [DOMAIN lk_result -> pos] :
                  /\ \A i \in DOMAIN lk_result : lk_result[i] = profile[f[i]]
                  /\ \A i, j \in DOMAIN lk_result : i < j => f[i] < f[j]
            /\ pos = {} => lk_result = <<>>
            /\ (lk_standard = "iso26262" /\ lk_phase = "concept") =>
                  {"HARA", "safety_goals"} \subseteq { lk_result[i].topic : i \in DOMAIN lk_result }

\* a lookup that returned several entries of a profile
C4_Witness ==
    /\ lk_pc = "returned"
    /\ lk_standard = "iso26262"
    /\ lk_phase = "verification"
    /\ Len(lk_result) = 2


\* ---- C5, C6, C7 ----
SetMin(S) == CHOOSE x \in S : \A y \in S : x <= y
SetMax(S) == CHOOSE x \in S : \A y \in S : y <= x

\* the description with its leading and trailing whitespace removed
NonBlank(str) == { i \in DOMAIN str : str[i] \notin Whitespace }
Trimmed(str) ==
    IF NonBlank(str) = {} THEN <<>> ELSE SubSeq(str, SetMin(NonBlank(str)), SetMax(NonBlank(str)))

\* a task's trimmed description (empty when the field is missing) and phase
DescOf(t) == IF t.description.kind = "str" THEN Trimmed(t.description.s) ELSE <<>>
PhaseOf(t) == IF t.phase.kind = "absent" THEN StrV(s_general) ELSE t.phase

\* the kept tasks, and those of them that belong to one phase
Kept == { i \in DOMAIN tasks : DescOf(tasks[i]) # <<>> }
KeptOf(phase) == { i \in Kept : PhaseOf(tasks[i]) = phase }

\* C5: the formatter returns a mapping in which every kept task contributes
\* exactly one line "- [ ] " + trimmed description to the list of its phase
\* ("general" when it has no phase field), the lines of a phase are in task
\* arrival order, and the phases are in the order of their first kept task.
C5_GroupedByPhaseInOrder ==
    fmt.pc # "call" =>
        /\ fmt.pc = "returned"
        /\ LET g == fmt.grouped
           IN  /\ \A a, b \in DOMAIN g : a # b => g[a].key # g[b].key
               /\ { g[k].key : k \in DOMAIN g } = { PhaseOf(tasks[i]) : i \in Kept }
               /\ \A k \in DOMAIN g :
                     /\ Len(g[k].lines) = Cardinality(KeptOf(g[k].key))
                     /\ \E f \in [DOMAIN g[k].lines -> KeptOf(g[k].key)] :
                           /\ \A i, j \in DOMAIN f : i < j => f[i] < f[j]
                           /\ \A j \in DOMAIN f :
                                 g[k].lines[j] = <<"-", " ", "[", " ", "]", " ">> \o DescOf(tasks[f[j]])
               /\ \A a, b \in DOMAIN g :
                     a < b => SetMin(KeptOf(g[a].key)) < SetMin(KeptOf(g[b].key))

\* three kept tasks, one without a phase field and one with surrounding
\* whitespace, grouped into two phases with the later-named phase first
C5_Witness ==
    /\ fmt.pc = "returned"
    /\ Len(tasks) = 3
    /\ Kept = {1, 2, 3}
    /\ tasks[1].phase = StrV(s_verification)
    /\ tasks[2].phase = AbsentV
    /\ tasks[3].phase = StrV(s_verification)
    /\ tasks[1].description # tasks[3].description
    /\ tasks[3].description.s # DescOf(tasks[3])
    /\ Len(fmt.grouped) = 2
    /\ fmt.grouped[2].key = StrV(s_general)

RECURSIVE SumLines(_)
SumLines(g) == IF g = <<>> THEN 0 ELSE Len(Head(g).lines) + SumLines(Tail(g))

\* C6: a task whose description is missing, empty or only whitespace adds
\* no line and creates no key: the number of lines equals the number of
\* tasks with a non-empty trimmed description, every key is the phase of a
\* kept task, and no phase maps to an empty list.
C6_EmptyDescriptionsDropped ==
    fmt.pc # "call" =>
        /\ fmt.pc = "returned"
        /\ SumLines(fmt.grouped) = Cardinality(Kept)
        /\ \A k \in DOMAIN fmt.grouped : fmt.grouped[k].lines # <<>>
        /\ \A i \in DOMAIN tasks :
              (i \notin Kept /\ KeptOf(PhaseOf(tasks[i])) = {}) =>
                  \A k \in DOMAIN fmt.grouped : fmt.grouped[k].key # PhaseOf(tasks[i])

\* a whitespace-only task and a task without description were dropped, the
\* first one being the only task of its phase, and one task was kept
C6_Witness ==
    /\ fmt.pc = "returned"
    /\ Len(tasks) = 3
    /\ tasks[1].phase = StrV(s_concept)
    /\ tasks[1].description = StrV(<<" ", "\t">>)
    /\ tasks[2].description = AbsentV
    /\ Kept = {3}
    /\ PhaseOf(tasks[3]) # StrV(s_concept)
    /\ Len(fmt.grouped) = 1

\* C7: the formatter has no error outcome, whatever the field values of
\* the task records (missing, None, not a str).
C7_FormatterNeverRaises == fmt.pc # "raised"

\* ---- C8 ----
\* the coverage rule as stated, applied to a keyword k as given
StatedCovered(k, text_lower) ==
    CASE k = <<"h", "a", "r", "a">> ->
            \/ Contains(<<"h", "a", "r", "a">>, text_lower)
            \/ Contains(<<"h", "a", "z", "a", "r", "d", " ", "a", "n", "a", "l", "y", "s", "i", "s">>, text_lower)
      [] k = s_verification \o <<"_", "p", "l", "a", "n">> ->
            \/ /\ Contains(s_verification, text_lower)
               /\ Contains(<<"p", "l", "a", "n">>, text_lower)
            \/ Contains(<<"t", "e", "s", "t", " ", "p", "l", "a", "n">>, text_lower)
      [] OTHER ->
            Contains([i \in DOMAIN k |-> IF k[i] = "_" THEN " " ELSE k[i]], text_lower)

\* C8 as stated: a keyword is covered exactly when the stated rule holds of
\* the keyword as given and the lower-cased final text.
C8_CoveredAsStated ==
    cv_pc = "done" => (cv_match <=> StatedCovered(cv_kw, Lower(cv_text)))

\* C8 amended: a keyword is covered exactly when the stated rule holds of
\* the lower-cased keyword and the lower-cased final text; a text with
\* "hazard analysis" and without "hara" still covers "hara".
C8_CoveredLowerCasedKeyword ==
    cv_pc = "done" =>
        /\ cv_match <=> StatedCovered(Lower(cv_kw), Lower(cv_text))
        /\ (cv_kw = s_hara /\ Contains(s_hazard_analysis, Lower(cv_text))) => cv_match

\* "hara" was found covered by a text that has "hazard analysis" but not "hara"
C8_Witness ==
    /\ cv_pc = "done"
    /\ cv_kw = s_hara
    /\ Contains(s_hazard_analysis, Lower(cv_text))
    /\ ~Contains(s_hara, Lower(cv_text))
    /\ cv_match

\* ---- C1 ----
\* C1: a call of run_pipeline_get_text made while planner_runner or
\* checker_runner is None fails with the "not initialized" RuntimeError
\* before anything is sent: the step that starts the call makes no run_async
\* call, leaves the sessions as they were and returns no text; and no run is
\* ever past its first line with a runner that is None.
C1_NotInitializedRaisesBeforeAnyCall ==
    /\ [](pl_pc \in {"planner", "checker", "returned"} =>
            (planner_runner # None /\ checker_runner # None))
    /\ []((pl_pc = "raised" /\ (planner_runner = None \/ checker_runner = None)) =>
            /\ pl_result = [kind |-> "raised", text |-> <<>>,
                            error |-> "RuntimeError: Agents (Planner/Checker) are not initialized."]
            /\ pl_calls = <<>>
            /\ active = {})
    /\ [][((planner_runner = None \/ checker_runner = None)
             /\ pl_pc' # "idle" /\ plVars' # plVars) =>
            /\ pl_pc' = "raised"
            /\ pl_result'.kind = "raised"
            /\ pl_calls' = <<>>
            /\ active' = {}
            /\ sessions' = sessions]_vars

\* a call failed although the planner's runner was initialised: only the
\* checker's was None
C1_Witness ==
    /\ pl_pc = "raised"
    /\ planner_runner # None
    /\ checker_runner = None
    /\ DOMAIN sessions # {}

\* ---- C2 ----
\* C2: a run with both runners initialised makes exactly one planner call
\* and then exactly one checker call; at most one event stream is open at a
\* time, the checker's only after the planner's is closed; the checker's
\* message carries the text captured from the planner's stream and the same
\* description, domain, standard and risk level as the planner's message.
C2_PlannerThenCheckerSequential ==
    /\ Cardinality(active) <= 1
    /\ pl_pc = "planner" =>
          /\ Len(pl_calls) = 1
          /\ pl_calls[1].runner = planner_runner
          /\ pl_calls[1].new_message.kind = "planner_input"
          /\ active = {planner_runner}
    /\ pl_pc \in {"checker", "returned"} =>
          /\ Len(pl_calls) = 2
          /\ pl_calls[1].runner = planner_runner
          /\ pl_calls[1].session_id = "planner_session"
          /\ pl_calls[2].runner = checker_runner
          /\ pl_calls[2].session_id = "checker_session"
          /\ planner_runner # checker_runner
          /\ active = IF pl_pc = "checker" THEN {checker_runner} ELSE {}
          /\ LET p == pl_calls[1].new_message
                 c == pl_calls[2].new_message
             IN  /\ c.plan = planner_text
                 /\ c.description = pl_system.description /\ p.description = c.description
                 /\ c.domain = pl_system.domain /\ p.domain = c.domain
                 /\ c.standard = pl_standard /\ p.standard = c.standard
                 /\ c.risk_level = pl_risk_level /\ p.risk_level = c.risk_level
                 /\ c.risk_level \in {"low", "medium", "high"}

\* a run returned after the planner answered with a text, which the
\* checker's message carries
C2_Witness ==
    /\ pl_pc = "returned"
    /\ planner_text = text_hazard
    /\ checker_text = text_full
    /\ pl_standard = "generic_safety"
    /\ pl_calls[2].new_message.plan = text_hazard

\* ---- C9 ----
\* C9: every row has coverage covered / max(1, number of expected keywords):
\* the denominator is at least 1, an empty expected list gives coverage 0,
\* 0 <= covered_topics <= expected_topics, and the percentage (kept in
\* tenths) is the nearest tenth of 100 * covered / max(1, expected) and lies
\* between 0 and 100.
C9_CoverageGuardedAndBounded ==
    /\ \A i \in DOMAIN rows :
          LET n == Len(systems[i].expected_must_have)
          IN  /\ rows[i].expected_topics = n
              /\ 0 <= rows[i].covered_topics /\ rows[i].covered_topics <= n
              /\ rows[i].coverage_ratio.num = rows[i].covered_topics
              /\ rows[i].coverage_ratio.den = (IF n = 0 THEN 1 ELSE n)
              /\ n = 0 => rows[i].coverage_ratio.num = 0
    /\ ev_pc = "returned" =>
          \A i \in DOMAIN ev_result.rows :
              LET r == ev_result.rows[i]
                  den == IF r.expected_topics = 0 THEN 1 ELSE r.expected_topics
                  diff == r.coverage_pct * den - 1000 * r.covered_topics
              IN  /\ 0 <= r.coverage_pct /\ r.coverage_pct <= 1000
                  /\ 2 * diff <= den /\ -den <= 2 * diff
                  /\ r.expected_topics = 0 => r.coverage_pct = 0
                  /\ 0 <= r.covered_topics /\ r.covered_topics <= r.expected_topics

\* a report with a system without expected keywords and a system with some
\* but not all of its keywords covered
C9_Witness ==
    /\ ev_pc = "returned"
    /\ Len(ev_result.rows) = 2
    /\ ev_result.rows[1].expected_topics = 0
    /\ ev_result.rows[1].coverage_pct = 0
    /\ ev_result.rows[2].expected_topics = 3
    /\ ev_result.rows[2].covered_topics = 1
    /\ ev_result.rows[2].coverage_pct = 333

\* ---- C10 ----
\* C10: whenever evaluate_systems ends without the orchestrator having
\* failed, it has returned a report with one row per input system, in input
\* order, each with that system's id, name, domain, risk, expected_topics,
\* covered_topics and coverage percentage; also for the empty sequence.
C10_OneRowPerSystem ==
    (/\ ev_pc \in {"returned", "raised"}
     /\ ev_result.error # "RuntimeError: Agents (Planner/Checker) are not initialized.") =>
        /\ ev_pc = "returned"
        /\ Len(ev_result.rows) = Len(systems)
        /\ \A i \in DOMAIN ev_result.rows :
              LET r == ev_result.rows[i]
              IN  /\ DOMAIN r = {"id", "name", "domain", "risk", "expected_topics",
                                 "covered_topics", "coverage_pct"}
                  /\ r.id = systems[i].id
                  /\ r.name = systems[i].name
                  /\ r.domain = systems[i].domain
                  /\ r.risk = StatedLevel(systems[i].description)
                  /\ r.expected_topics = Len(systems[i].expected_must_have)

\* ---- C11 ----
IsPrefix(a, b) == Len(a) <= Len(b) /\ SubSeq(b, 1, Len(a)) = a

\* C11: the planner context and the checker context are two distinct
\* sessions that no step of the pipeline or of the evaluator resets: a
\* step only appends one message to one session; outside a run both have
\* received the same number of messages, the i-th of each coming from the
\* same run; and during a batch the messages of the systems already
\* processed are the latest ones, in input order, after those of earlier
\* runs.
C11_ContextsAccumulate ==
    /\ [](DOMAIN sessions # {} => DOMAIN sessions = {"planner_session", "checker_session"})
    /\ []((DOMAIN sessions # {} /\ pl_pc \in {"idle", "returned", "raised"}) =>
            LET p == sessions["planner_session"]
                c == sessions["checker_session"]
            IN  /\ Len(p) = Len(c)
                /\ \A i \in DOMAIN p :
                      /\ p[i].kind = "planner_input" /\ c[i].kind = "checker_input"
                      /\ p[i].description = c[i].description
                      /\ p[i].standard = c[i].standard)
    /\ [](pl_pc = "planner" =>
            /\ Len(sessions["planner_session"]) = Len(sessions["checker_session"]) + 1
            /\ sessions["planner_session"][Len(sessions["planner_session"])]
                  = pl_calls[1].new_message)
    /\ [](pl_pc \in {"checker", "returned"} =>
            /\ Len(sessions["planner_session"]) = Len(sessions["checker_session"])
            /\ sessions["checker_session"][Len(sessions["checker_session"])]
                  = pl_calls[2].new_message)
    /\ [](ev_pc \in {"loop", "returned"} =>
            LET k == ev_i - 1
                n == IF DOMAIN sessions = {} THEN 0 ELSE Len(sessions["planner_session"])
            IN  /\ k <= n
                /\ ev_pc = "returned" => k = Len(systems)
                /\ \A j \in 1..k :
                      /\ sessions["planner_session"][n - k + j].description = systems[j].description
                      /\ sessions["checker_session"][n - k + j].description = systems[j].description
                      /\ sessions["planner_session"][n - k + j].standard = ev_standard)
    /\ [][DOMAIN sessions # {} =>
            /\ DOMAIN sessions' = DOMAIN sessions
            /\ \A sid \in DOMAIN sessions :
                  /\ IsPrefix(sessions[sid], sessions'[sid])
                  /\ Len(sessions'[sid]) <= Len(sessions[sid]) + 1]_vars

\* a batch of two different systems has been evaluated: both sessions hold
\* the two runs' messages in input order
C11_Witness ==
    /\ ev_pc = "returned"
    /\ Len(systems) = 2
    /\ systems[1] # systems[2]
    /\ Len(sessions["planner_session"]) = 2
    /\ Len(sessions["checker_session"]) = 2
    /\ sessions["planner_session"][1].description = systems[1].description
    /\ sessions["checker_session"][2].description = systems[2].description

\* ---- C12 ----
\* positions of the final-response events of a stream that carry a response
FinalWithResponse(stream) == { i \in DOMAIN stream : stream[i].final /\ stream[i].content }

\* the text of the last such event, the empty string when there is none
LastFinalText(stream) ==
    IF FinalWithResponse(stream) = {} THEN <<>>
    ELSE stream[SetMax(FinalWithResponse(stream))].text

\* the text carried by the last final-response event of a stream, whether
\* or not that event carries a response (an event without content carries
\* no text)
LastFinalEventText(stream) ==
    LET finals == { i \in DOMAIN stream : stream[i].final }
    IN  IF finals = {} THEN <<>>
        ELSE IF stream[SetMax(finals)].content THEN stream[SetMax(finals)].text ELSE <<>>

\* C12 as stated: the captured text is the text carried by the last
\* final-response event of the stream.
C12_LastFinalEventAsStated ==
    /\ pl_pc = "planner" => planner_text = LastFinalEventText(pl_events)
    /\ pl_pc = "checker" => checker_text = LastFinalEventText(pl_events)

\* C12 amended: for each of the two calls the captured text is the text of the last
\* final-response event of the stream that carries a response, and the
\* empty string when the stream has none; run_pipeline_get_text returns the
\* text captured from the checker's stream, whatever the planner's was.
C12_LastFinalTextOfCheckerReturned ==
    /\ [](pl_pc = "planner" => planner_text = LastFinalText(pl_events))
    /\ [](pl_pc = "checker" => checker_text = LastFinalText(pl_events))
    /\ [](pl_pc = "returned" =>
            pl_result = [kind |-> "returned", text |-> checker_text, error |-> "none"])
    /\ [][(pl_pc = "planner" /\ pl_pc' = "checker") =>
            /\ planner_text' = LastFinalText(pl_events)
            /\ pl_calls'[2].new_message.plan = LastFinalText(pl_events)]_vars
    /\ [][(pl_pc = "checker" /\ pl_pc' = "returned") =>
            pl_result'.text = LastFinalText(pl_events)]_vars

\* the checker's stream had two final responses with different texts; the
\* later one is captured, and it differs from the planner's text
C12_Witness ==
    /\ pl_pc = "checker"
    /\ Len(pl_events) = 2
    /\ FinalWithResponse(pl_events) = {1, 2}
    /\ pl_events[1].text # pl_events[2].text
    /\ checker_text = pl_events[2].text
    /\ planner_text # checker_text
    /\ planner_text # <<>>

\* ---- C13 ----
\* C13: once setup_sessions_and_runners has completed with both agents
\* created (the agents module holds two runners), no call of
\* run_pipeline_get_text that starts afterwards fails with the "not
\* initialized" error, whatever the order of import and setup.
C13_CallsAfterSetupAreInitialised ==
    [][(/\ agents_planner_runner # None
        /\ agents_checker_runner # None
        /\ plVars' # plVars
        /\ pl_pc' = "raised") =>
          pl_result'.error # "RuntimeError: Agents (Planner/Checker) are not initialized."]_vars

====
